---- MODULE Spec2Model ----
(***************************************************************************)
(* Model of the legal-PDF ingestion pipeline                               *)
(* (milestone1/src/ingestion/chunk_embed.py): the folder flow              *)
(* index_all_pdfs, the per-document flow index_pdf, delete_pdf_vectors,    *)
(* and the pure helpers infer_act_from_filename and sanitize_metadata.     *)
(*                                                                         *)
(* Python strings are sequences of one-character strings, Python values    *)
(* are tagged records [t |-> type, v |-> payload], and a dict is a         *)
(* function from its keys to values.                                       *)
(***************************************************************************)
EXTENDS Integers, Sequences, FiniteSets, TLC

(***************************************************************************)
(* Bounds of the model.                                                    *)
(***************************************************************************)
\* largest number of full batches a document's chunks fill
MaxFullBatches == 1
\* largest number of keys of a mapping handed to sanitize_metadata alone
MaxKeys == 2

(***************************************************************************)
(* Program constants.                                                      *)
(***************************************************************************)
BATCH_SIZE == 100
MAX_TEXT == 2000
\* RecursiveCharacterTextSplitter(chunk_size=2000, chunk_overlap=200)
CHUNK_SIZE == 2000
CHUNK_OVERLAP == 200

(***************************************************************************)
(* Strings.                                                                *)
(***************************************************************************)
UpperChars == <<"A","B","C","D","E","F","G","H","I","J","K","L","M",
                "N","O","P","Q","R","S","T","U","V","W","X","Y","Z">>

LowerChars == <<"a","b","c","d","e","f","g","h","i","j","k","l","m",
                "n","o","p","q","r","s","t","u","v","w","x","y","z">>

DigitChars == <<"0","1","2","3","4","5","6","7","8","9">>

\* str.lower() on one character
LowerChar(c) ==
    IF \E j \in 1..26 : UpperChars[j] = c
    THEN LowerChars[CHOOSE j \in 1..26 : UpperChars[j] = c]
    ELSE c

\* str.lower()
Lower(s) == [j \in 1..Len(s) |-> LowerChar(s[j])]

\* s.endswith(suffix)
EndsWith(s, suffix) ==
    /\ Len(suffix) <= Len(s)
    /\ SubSeq(s, Len(s) - Len(suffix) + 1, Len(s)) = suffix

\* sub in s
Contains(s, sub) ==
    \E j \in 0..(Len(s) - Len(sub)) : SubSeq(s, j + 1, j + Len(sub)) = sub

RECURSIVE NatDigits(_)
\* decimal digits of a natural number
NatDigits(n) ==
    IF n < 10 THEN <<DigitChars[n + 1]>>
    ELSE NatDigits(n \div 10) \o <<DigitChars[(n % 10) + 1]>>

\* str(n) of an int
IntStr(n) == IF n < 0 THEN <<"-">> \o NatDigits(-n) ELSE NatDigits(n)

IsDigit(c) == \E j \in 1..10 : DigitChars[j] = c

DigitVal(c) == (CHOOSE j \in 1..10 : DigitChars[j] = c) - 1

IsSpace(c) == c \in {" ", "\t", "\n"}

RECURSIVE Strip(_)
\* str.strip()
Strip(s) ==
    IF s = <<>> THEN s
    ELSE IF IsSpace(Head(s)) THEN Strip(Tail(s))
    ELSE IF IsSpace(s[Len(s)]) THEN Strip(SubSeq(s, 1, Len(s) - 1))
    ELSE s

\* the digit groups int() accepts: digits, single underscores between digits
IsIntBody(s) ==
    /\ s # <<>>
    /\ \A j \in 1..Len(s) : IsDigit(s[j]) \/ s[j] = "_"
    /\ IsDigit(s[1]) /\ IsDigit(s[Len(s)])
    /\ \A j \in 1..(Len(s) - 1) : ~(s[j] = "_" /\ s[j + 1] = "_")

RECURSIVE BodyVal(_, _)
BodyVal(s, acc) ==
    IF s = <<>> THEN acc
    ELSE IF Head(s) = "_" THEN BodyVal(Tail(s), acc)
    ELSE BodyVal(Tail(s), acc * 10 + DigitVal(Head(s)))

(***************************************************************************)
(* Python values.                                                          *)
(***************************************************************************)
PyNone == [t |-> "none", v |-> <<>>]
PyInt(n) == [t |-> "int", v |-> <<n>>]
PyStr(s) == [t |-> "str", v |-> s]
PyBool(b) == [t |-> "bool", v |-> <<b>>]
\* a float: kind "fin" with its value in tenths, or "nan" / "inf"
PyFloat(kind, tenths) == [t |-> "float", v |-> <<kind, tenths>>]
PyList(xs) == [t |-> "list", v |-> xs]
\* any other object; the payload is what its __str__ returns
PyObj(s) == [t |-> "obj", v |-> s]

\* Python truth value, as `or` tests it
Truthy(x) ==
    CASE x.t = "none" -> FALSE
      [] x.t = "int" -> x.v[1] # 0
      [] x.t = "str" -> x.v # <<>>
      [] x.t = "bool" -> x.v[1]
      [] x.t = "float" -> ~(x.v[1] = "fin" /\ x.v[2] = 0)
      [] x.t = "list" -> x.v # <<>>
      [] OTHER -> TRUE

\* a or b
PyOr(a, b) == IF Truthy(a) THEN a ELSE b

\* d.get(k): None when the key is absent
DictGet(d, k) == IF k \in DOMAIN d THEN d[k] ELSE PyNone

\* whether int(x) returns; otherwise it raises TypeError, ValueError or
\* OverflowError, all of them subclasses of Exception
IntOk(x) ==
    CASE x.t = "int" -> TRUE
      [] x.t = "bool" -> TRUE
      [] x.t = "float" -> x.v[1] = "fin"
      [] x.t = "str" ->
           LET s == Strip(x.v)
               b == IF s # <<>> /\ Head(s) \in {"+", "-"} THEN Tail(s) ELSE s
           IN  IsIntBody(b)
      [] OTHER -> FALSE

\* int(x) where it returns
IntOf(x) ==
    CASE x.t = "int" -> x.v[1]
      [] x.t = "bool" -> IF x.v[1] THEN 1 ELSE 0
      [] x.t = "float" ->
           IF x.v[2] >= 0 THEN x.v[2] \div 10 ELSE -((-x.v[2]) \div 10)
      [] x.t = "str" ->
           LET s == Strip(x.v)
               neg == s # <<>> /\ Head(s) = "-"
               b == IF s # <<>> /\ Head(s) \in {"+", "-"} THEN Tail(s) ELSE s
           IN  IF neg THEN -BodyVal(b, 0) ELSE BodyVal(b, 0)

Chars_None == <<"N","o","n","e">>
Chars_True == <<"T","r","u","e">>
Chars_False == <<"F","a","l","s","e">>

\* str(x) of a float
FloatStr(f) ==
    CASE f[1] = "nan" -> <<"n","a","n">>
      [] f[1] = "inf" -> <<"i","n","f">>
      [] OTHER ->
           LET a == IF f[2] < 0 THEN -f[2] ELSE f[2]
           IN  (IF f[2] < 0 THEN <<"-">> ELSE <<>>)
                 \o NatDigits(a \div 10) \o <<".">> \o NatDigits(a % 10)

\* repr(x) of a list element (a scalar)
ReprOf(x) ==
    CASE x.t = "none" -> Chars_None
      [] x.t = "int" -> IntStr(x.v[1])
      [] x.t = "str" -> <<"'">> \o x.v \o <<"'">>
      [] x.t = "bool" -> IF x.v[1] THEN Chars_True ELSE Chars_False
      [] x.t = "float" -> FloatStr(x.v)
      [] OTHER -> x.v

RECURSIVE JoinRepr(_)
JoinRepr(xs) ==
    IF xs = <<>> THEN <<>>
    ELSE IF Len(xs) = 1 THEN ReprOf(xs[1])
    ELSE ReprOf(xs[1]) \o <<",", " ">> \o JoinRepr(Tail(xs))

\* str(x)
StrOf(x) ==
    CASE x.t = "none" -> Chars_None
      [] x.t = "int" -> IntStr(x.v[1])
      [] x.t = "str" -> x.v
      [] x.t = "bool" -> IF x.v[1] THEN Chars_True ELSE Chars_False
      [] x.t = "float" -> FloatStr(x.v)
      [] x.t = "list" -> <<"[">> \o JoinRepr(x.v) \o <<"]">>
      [] OTHER -> x.v

(***************************************************************************)
(* infer_act_from_filename: the ordered keyword table, first match wins.   *)
(***************************************************************************)
KW_ipc == <<"i","p","c">>
KW_penal == <<"p","e","n","a","l">>
KW_crpc == <<"c","r","p","c">>
KW_criminal == <<"c","r","i","m","i","n","a","l">>
KW_evidence == <<"e","v","i","d","e","n","c","e">>
KW_pocso == <<"p","o","c","s","o">>
KW_contract == <<"c","o","n","t","r","a","c","t">>
KW_domestic == <<"d","o","m","e","s","t","i","c">>
KW_motor == <<"m","o","t","o","r">>
KW_negotiable == <<"n","e","g","o","t","i","a","b","l","e">>
KW_ni_act == <<"n","i"," ","a","c","t">>
KW_juvenile == <<"j","u","v","e","n","i","l","e">>
KW_ndps == <<"n","d","p","s">>
KW_it == <<"i","t">>
KW_information_technology ==
    <<"i","n","f","o","r","m","a","t","i","o","n"," ",
      "t","e","c","h","n","o","l","o","g","y">>
KW_constitution == <<"c","o","n","s","t","i","t","u","t","i","o","n">>

\* the labels, as Python strings
Act_IPC ==
    <<"I","n","d","i","a","n"," ","P","e","n","a","l"," ","C","o","d","e">>

Act_CrPC ==
    <<"C","o","d","e"," ","o","f"," ","C","r","i","m","i","n","a","l"," ",
      "P","r","o","c","e","d","u","r","e">>

Act_Evidence ==
    <<"I","n","d","i","a","n"," ","E","v","i","d","e","n","c","e"," ","A",
      "c","t">>

Act_POCSO ==
    <<"P","O","C","S","O"," ","A","c","t">>

Act_Contract ==
    <<"I","n","d","i","a","n"," ","C","o","n","t","r","a","c","t"," ","A",
      "c","t">>

Act_Domestic ==
    <<"D","o","m","e","s","t","i","c"," ","V","i","o","l","e","n","c","e",
      " ","A","c","t">>

Act_Motor ==
    <<"M","o","t","o","r"," ","V","e","h","i","c","l","e","s"," ","A","c",
      "t">>

Act_Negotiable ==
    <<"N","e","g","o","t","i","a","b","l","e"," ","I","n","s","t","r","u",
      "m","e","n","t","s"," ","A","c","t">>

Act_Juvenile ==
    <<"J","u","v","e","n","i","l","e"," ","J","u","s","t","i","c","e"," ",
      "A","c","t">>

Act_NDPS ==
    <<"N","D","P","S"," ","A","c","t">>

Act_IT ==
    <<"I","n","f","o","r","m","a","t","i","o","n"," ","T","e","c","h","n",
      "o","l","o","g","y"," ","A","c","t">>

Act_Constitution ==
    <<"C","o","n","s","t","i","t","u","t","i","o","n"," ","o","f"," ","I",
      "n","d","i","a">>

Act_Unknown ==
    <<"U","n","k","n","o","w","n"," ","A","c","t">>

ActTable ==
    << [kws |-> {KW_ipc, KW_penal}, label |-> Act_IPC],
       [kws |-> {KW_crpc, KW_criminal}, label |-> Act_CrPC],
       [kws |-> {KW_evidence}, label |-> Act_Evidence],
       [kws |-> {KW_pocso}, label |-> Act_POCSO],
       [kws |-> {KW_contract}, label |-> Act_Contract],
       [kws |-> {KW_domestic}, label |-> Act_Domestic],
       [kws |-> {KW_motor}, label |-> Act_Motor],
       [kws |-> {KW_negotiable, KW_ni_act}, label |-> Act_Negotiable],
       [kws |-> {KW_juvenile}, label |-> Act_Juvenile],
       [kws |-> {KW_ndps}, label |-> Act_NDPS],
       [kws |-> {KW_it, KW_information_technology},
        label |-> Act_IT],
       [kws |-> {KW_constitution}, label |-> Act_Constitution] >>

RowMatches(row, f) == \E kw \in row.kws : Contains(f, kw)

\* the keywords are looked up in the name as given, not in its lower case
infer_act_from_filename_CaseSensitive(fname) ==
    LET f == fname
    IN  IF \E r \in 1..Len(ActTable) : RowMatches(ActTable[r], f)
        THEN LET first == CHOOSE r \in 1..Len(ActTable) :
                              /\ RowMatches(ActTable[r], f)
                              /\ \A q \in 1..(r - 1) : ~RowMatches(ActTable[q], f)
             IN  ActTable[first].label
        ELSE Act_Unknown

infer_act_from_filename(fname) ==
    LET f == Lower(fname)
    IN  IF \E r \in 1..Len(ActTable) : RowMatches(ActTable[r], f)
        THEN LET first == CHOOSE r \in 1..Len(ActTable) :
                              /\ RowMatches(ActTable[r], f)
                              /\ \A q \in 1..(r - 1) : ~RowMatches(ActTable[q], f)
             IN  ActTable[first].label
        ELSE Act_Unknown

(***************************************************************************)
(* sanitize_metadata.                                                      *)
(***************************************************************************)
Min(a, b) == IF a < b THEN a ELSE b

\* isinstance(v, (str, int, float, bool))
IsPrimitive(x) == x.t \in {"str", "int", "float", "bool"}

\* isinstance(v, list) and all(isinstance(x, str) for x in v)
IsStrList(x) == x.t = "list" /\ \A j \in 1..Len(x.v) : x.v[j].t = "str"

\* str(v) if v is not None else ""
StrOrEmpty(x) == IF x.t = "none" THEN PyStr(<<>>) ELSE PyStr(StrOf(x))

\* sanitize_metadata with the list test isinstance(v, list) alone
SanitizeValue_AnyList(k, x) ==
    CASE k = "page_number" ->
           IF x.t = "none" THEN PyInt(-1)
           ELSE IF IntOk(x) THEN PyInt(IntOf(x)) ELSE PyInt(-1)
      [] k = "chunk_index" ->
           IF IntOk(x) THEN PyInt(IntOf(x)) ELSE PyInt(-1)
      [] k = "file_hash" -> StrOrEmpty(x)
      [] k \in {"source_pdf", "source_act"} -> StrOrEmpty(x)
      [] k = "text" ->
           LET txt == StrOrEmpty(x).v
           IN  PyStr(SubSeq(txt, 1, Min(Len(txt), MAX_TEXT)))
      [] OTHER ->
           IF IsPrimitive(x) THEN x
           ELSE IF x.t = "list" THEN x
           ELSE StrOrEmpty(x)

\* sanitize_metadata whose except clauses keep the value that int() rejected
SanitizeValue_KeepsRejected(k, x) ==
    CASE k = "page_number" ->
           IF x.t = "none" THEN PyInt(-1)
           ELSE IF IntOk(x) THEN PyInt(IntOf(x)) ELSE x
      [] k = "chunk_index" ->
           IF IntOk(x) THEN PyInt(IntOf(x)) ELSE x
      [] k = "file_hash" -> StrOrEmpty(x)
      [] k \in {"source_pdf", "source_act"} -> StrOrEmpty(x)
      [] k = "text" ->
           LET txt == StrOrEmpty(x).v
           IN  PyStr(SubSeq(txt, 1, Min(Len(txt), MAX_TEXT)))
      [] OTHER ->
           IF IsPrimitive(x) THEN x
           ELSE IF IsStrList(x) THEN x
           ELSE StrOrEmpty(x)

\* sanitize_metadata that stores the text whole
SanitizeValue_TextWhole(k, x) ==
    CASE k = "page_number" ->
           IF x.t = "none" THEN PyInt(-1)
           ELSE IF IntOk(x) THEN PyInt(IntOf(x)) ELSE PyInt(-1)
      [] k = "chunk_index" ->
           IF IntOk(x) THEN PyInt(IntOf(x)) ELSE PyInt(-1)
      [] k = "file_hash" -> StrOrEmpty(x)
      [] k \in {"source_pdf", "source_act"} -> StrOrEmpty(x)
      [] k = "text" -> StrOrEmpty(x)
      [] OTHER ->
           IF IsPrimitive(x) THEN x
           ELSE IF IsStrList(x) THEN x
           ELSE StrOrEmpty(x)

\* the value sanitize_metadata stores under key k for input value x
SanitizeValue(k, x) ==
    CASE k = "page_number" ->
           IF x.t = "none" THEN PyInt(-1)
           ELSE IF IntOk(x) THEN PyInt(IntOf(x)) ELSE PyInt(-1)
      [] k = "chunk_index" ->
           IF IntOk(x) THEN PyInt(IntOf(x)) ELSE PyInt(-1)
      [] k = "file_hash" -> StrOrEmpty(x)
      [] k \in {"source_pdf", "source_act"} -> StrOrEmpty(x)
      [] k = "text" ->
           LET txt == StrOrEmpty(x).v
           IN  PyStr(SubSeq(txt, 1, Min(Len(txt), MAX_TEXT)))
      [] OTHER ->
           IF IsPrimitive(x) THEN x
           ELSE IF IsStrList(x) THEN x
           ELSE StrOrEmpty(x)

sanitize_metadata(m) == [k \in DOMAIN m |-> SanitizeValue(k, m[k])]

(***************************************************************************)
(* RecursiveCharacterTextSplitter(chunk_size=2000, chunk_overlap=200,      *)
(* length_function=len), with the library's defaults: separators           *)
(* "\n\n", "\n", " ", "" tried in this order, the separator kept at the   *)
(* head of the piece that follows it, pieces merged without a joining      *)
(* string.                                                                 *)
(*                                                                         *)
(* A page text is given by the lengths of its lines: the lines are joined  *)
(* by "\n", none is empty and none holds white space.  A text is here the  *)
(* sequence of these lengths, and a chunk is given by its length before    *)
(* the white space at its ends is stripped.                                *)
(***************************************************************************)
RECURSIVE SumOf(_)
SumOf(s) == IF s = <<>> THEN 0 ELSE Head(s) + SumOf(Tail(s))

\* len(text)
TextLen(t) == IF t = <<>> THEN 0 ELSE SumOf(t) + (Len(t) - 1)

\* the text split at "\n", the separator kept: the first line, then every
\* other line with the "\n" before it
LineSplits(t) == [j \in 1..Len(t) |-> IF j = 1 THEN t[1] ELSE t[j] + 1]

RECURSIVE Shrink(_, _)
\* _merge_splits, its while loop: pieces leave the head of the current chunk
\* until what stays is no longer than the overlap and the next piece fits
Shrink(cur, len) ==
    LET total == SumOf(cur)
    IN  IF total > CHUNK_OVERLAP \/ (total + len > CHUNK_SIZE /\ total > 0)
        THEN Shrink(Tail(cur), len)
        ELSE cur

RECURSIVE MergeFrom(_, _, _, _)
\* _merge_splits, its for loop from piece j on: cur is the current chunk's
\* pieces, docs the chunks emitted so far
MergeFrom(splits, j, cur, docs) ==
    IF j > Len(splits)
    THEN IF cur # <<>> THEN Append(docs, SumOf(cur)) ELSE docs
    ELSE LET len == splits[j]
         IN  IF SumOf(cur) + len > CHUNK_SIZE /\ cur # <<>>
             THEN MergeFrom(splits, j + 1, Append(Shrink(cur, len), len),
                            Append(docs, SumOf(cur)))
             ELSE MergeFrom(splits, j + 1, Append(cur, len), docs)

\* _merge_splits(splits, "")
merge_splits(splits) == MergeFrom(splits, 1, <<>>, <<>>)

RECURSIVE MergeChars(_)
\* _merge_splits of n pieces of one character each: a chunk is emitted when
\* it holds chunk_size characters, and its last chunk_overlap characters
\* start the next chunk
MergeChars(n) ==
    IF n = 0 THEN <<>>
    ELSE IF n <= CHUNK_SIZE THEN <<n>>
    ELSE <<CHUNK_SIZE>> \o MergeChars(n - (CHUNK_SIZE - CHUNK_OVERLAP))

RECURSIVE SplitPieces(_)
\* _split_text, its loop over the pieces: the pieces shorter than chunk_size
\* are merged, run by run; a longer piece is split again, and as it holds
\* no blank it is split into its characters
SplitPieces(splits) ==
    LET long == { j \in 1..Len(splits) : splits[j] >= CHUNK_SIZE }
    IN  IF long = {} THEN merge_splits(splits)
        ELSE LET k == CHOOSE j \in long : \A q \in long : j <= q
             IN  merge_splits(SubSeq(splits, 1, k - 1))
                   \o MergeChars(splits[k])
                   \o SplitPieces(SubSeq(splits, k + 1, Len(splits)))

\* splitter.split_text(text): the lengths of the chunks, in order
split_text(t) ==
    IF t = <<>> THEN <<>>
    ELSE IF Len(t) = 1 THEN MergeChars(t[1])
    ELSE SplitPieces(LineSplits(t))

RECURSIVE split_documents(_, _)
\* splitter.split_documents(pages): the chunks of page 0, then of page 1, ...;
\* each chunk carries the metadata of its page
split_documents(pgs, first) ==
    IF pgs = <<>> THEN <<>>
    ELSE LET lens == split_text(Head(pgs))
         IN  [j \in 1..Len(lens) |-> [len |-> lens[j], page |-> first]]
               \o split_documents(Tail(pgs), first + 1)

\* a text of 5000 characters in lines of l characters, the last line shorter
LinesOf(l) ==
    LET k == 5000 \div (l + 1)
        r == 5000 % (l + 1)
    IN  [j \in 1..k |-> l] \o (IF r > 0 THEN <<r>> ELSE <<>>)

\* the page texts of the one-page documents of the model: the empty page,
\* texts of one line, and texts of 5000 characters in lines of equal length
PageTexts ==
    { <<>> }
      \cup { <<l>> : l \in {1000, 2000, 2001, 3800, 3801, 5000, 5600, 5601} }
      \cup { LinesOf(l) :
               l \in {100, 300, 500, 700, 900, 1100, 1300, 1500, 1700, 1900} }

\* the chunk counts of these documents
PageSizes == { Len(split_documents(<<t>>, 0)) : t \in PageTexts }

(***************************************************************************)
(* The folder, the documents and the external collaborators.               *)
(***************************************************************************)
F_ipc == <<"i","p","c",".","p","d","f">>
F_IT == <<"I","T",".","P","D","F">>
F_notes == <<"n","o","t","e","s",".","t","x","t">>

\* the names a folder listing is drawn from
FileNames == {F_ipc, F_IT, F_notes}

Ext_pdf == <<".","p","d","f">>

PDF_FOLDER == <<"d","a","t","a">>

\* os.path.join(a, b) for a relative name b
PathJoin(a, b) == a \o <<"/">> \o b

\* os.path.basename(path): what follows the last "/"
Basename(path) ==
    LET cuts == { j \in 1..Len(path) : path[j] = "/" }
        last == IF cuts = {} THEN 0
                ELSE CHOOSE j \in cuts : \A c \in cuts : c <= j
    IN  SubSeq(path, last + 1, Len(path))

\* fname.lower().endswith(".pdf")
IsPdf(fname) == EndsWith(Lower(fname), Ext_pdf)

\* the order in which the directory lists its entries
DirOrder == <<F_ipc, F_notes, F_IT>>

RECURSIVE Pick(_, _)
\* the entries of l whose positions are in keep, in l's order
Pick(l, keep) ==
    IF l = <<>> THEN <<>>
    ELSE LET rest == Pick(Tail(l), { j - 1 : j \in keep \ {1} })
         IN  IF 1 \in keep THEN <<Head(l)>> \o rest ELSE rest

\* os.listdir(PDF_FOLDER): the files present, in directory order
Listings == { Pick(DirOrder, keep) : keep \in SUBSET (1..Len(DirOrder)) }

PdfNames == { f \in FileNames : IsPdf(f) }

\* chunk counts of the documents a file may hold when it is loaded: no
\* chunk, one chunk, MaxFullBatches full batches, and these plus one chunk
DocSizes == { b * BATCH_SIZE + e : b \in {0, MaxFullBatches}, e \in {0, 1} }

\* chunk counts a file had at the earlier run: never ingested, or the
\* largest document
OldSizes == { 0, MaxFullBatches * BATCH_SIZE + 1 }

\* hashlib.md5 of the file's bytes, as a digest that names the content
file_md5(n) == <<"m","d","5",":">> \o NatDigits(n)

\* the text of chunk i of a document
ChunkText(n, i) == <<"t">> \o NatDigits(i)

\* splitter.split_documents(loader.load()): chunk i of a document of n
\* chunks; PyPDFLoader numbers pages from 0.  The document of n chunks is,
\* for n in DocSizes, one of n pages whose every page is one chunk, and for
\* another n one of a single page
ChunkOf(n, i) ==
    [page_content |-> ChunkText(n, i),
     metadata |-> [k \in {"page"} |-> PyInt(IF n \in DocSizes THEN i ELSE 0)]]

\* embeddings.embed_documents([text])[0]
Embed(text) == <<Len(text)>>

(***************************************************************************)
(* index_pdf: the record built for chunk i (lines 118-136).                *)
(***************************************************************************)
RawPage(chunk) ==
    PyOr(PyOr(DictGet(chunk.metadata, "page_number"),
              DictGet(chunk.metadata, "page")), PyNone)

\* source_pdf is given the file's path, not its name
ChunkMetadata_SourcePath(file_name, act_name, file_hash, chunk, i) ==
    [k \in {"text", "source_pdf", "source_act", "page_number",
            "file_hash", "chunk_index"} |->
        CASE k = "text" -> PyStr(chunk.page_content)
          [] k = "source_pdf" -> PyStr(PathJoin(PDF_FOLDER, file_name))
          [] k = "source_act" -> PyStr(act_name)
          [] k = "page_number" -> RawPage(chunk)
          [] k = "file_hash" -> PyStr(file_hash)
          [] k = "chunk_index" -> PyInt(i)]

ChunkMetadata(file_name, act_name, file_hash, chunk, i) ==
    [k \in {"text", "source_pdf", "source_act", "page_number",
            "file_hash", "chunk_index"} |->
        CASE k = "text" -> PyStr(chunk.page_content)
          [] k = "source_pdf" -> PyStr(file_name)
          [] k = "source_act" -> PyStr(act_name)
          [] k = "page_number" -> RawPage(chunk)
          [] k = "file_hash" -> PyStr(file_hash)
          [] k = "chunk_index" -> PyInt(i)]

Chars_chunk == <<"-","c","h","u","n","k","-">>

\* the chunks are counted from 1
VecId_OneBased(file_name, i) == file_name \o Chars_chunk \o IntStr(i + 1)

\* the id is built from the record's position in the buffer
VecId_BatchPos(file_name, i) ==
    file_name \o Chars_chunk \o IntStr(i % BATCH_SIZE)

\* f"{file_name}-chunk-{i}"
VecId(file_name, i) == file_name \o Chars_chunk \o IntStr(i)

\* lines 118-136: vec_obj for chunk i
VecObj(file_name, act_name, file_hash, chunk, i) ==
    [id |-> VecId(file_name, i),
     values |-> Embed(chunk.page_content),
     metadata |-> sanitize_metadata(
         ChunkMetadata(file_name, act_name, file_hash, chunk, i))]

(***************************************************************************)
(* State.                                                                  *)
(***************************************************************************)
VARIABLES
    listing,    \* os.listdir(PDF_FOLDER) of this folder
    earlier,    \* per PDF name, the chunk count it had at the earlier run
    pc,         \* where the run stands
    idx,        \* position of index_all_pdfs' loop in the listing
    pages,      \* index_pdf: the page texts the loader returned, in the runs
                \* that draw a document's text
    doc,        \* index_pdf: the loaded document
    next_i,     \* index_pdf: the next chunk index of the for loop
    batch,      \* index_pdf: the buffer of records
    store,      \* the vector index: its records, each with the run that wrote it
                \* ("earlier" or "current")
    log,        \* the calls issued and the lines logged, in order
    san_m,      \* a mapping handed to sanitize_metadata
    san_md,     \* what sanitize_metadata returned for it
    san_pc,     \* whether that call has returned
    cls_fname,  \* a name handed to infer_act_from_filename
    cls_label,  \* what infer_act_from_filename returned for it
    cls_pc      \* whether that call has returned

folder_vars ==
    <<listing, earlier, pc, idx, pages, doc, next_i, batch, store, log>>

san_vars == <<san_m, san_md, san_pc>>

cls_vars == <<cls_fname, cls_label, cls_pc>>

vars == <<listing, earlier, pc, idx, pages, doc, next_i, batch, store, log,
          san_m, san_md, san_pc, cls_fname, cls_label, cls_pc>>

NoDoc == [loaded |-> FALSE, n |-> 0]

\* one line of the trail: a call to the store or the loader, or a log line
Entry(op, file_name, ok, n, vectors) ==
    [op |-> op, file |-> file_name, ok |-> ok, n |-> n, vectors |-> vectors]

(***************************************************************************)
(* The vector store.                                                       *)
(***************************************************************************)
\* index.upsert(vectors=b): insert or overwrite by id
Upserted(st, b, by) ==
    LET ids == { b[j].id : j \in 1..Len(b) }
        \* of two records of the call with one id, the later one stays
        last == IF Cardinality(ids) = Len(b) THEN 1..Len(b)
                ELSE { a \in 1..Len(b) :
                         \A c \in (a + 1)..Len(b) : b[c].id # b[a].id }
    IN  { e \in st : e.vec.id \notin ids }
          \cup { [vec |-> b[j], by |-> by] : j \in last }

\* the filter compares the stored source_act, not the stored source_pdf
Deleted_ByAct(st, file_name) ==
    { e \in st : e.vec.metadata["source_act"] # PyStr(file_name) }

\* index.delete(filter={"source_pdf": {"$eq": file_name}})
Deleted(st, file_name) ==
    { e \in st : e.vec.metadata["source_pdf"] # PyStr(file_name) }

(***************************************************************************)
(* index_pdf: the for loop (lines 116-145), run from chunk i with buffer b *)
(* up to the next upsert call or to the loop's end.                        *)
(***************************************************************************)
\* lines 103-136: the records index_pdf builds for the chunks of a document,
\* in chunk order; they depend on the file's name and content alone
Records(file_name, n) ==
    LET act_name == infer_act_from_filename(file_name)
        file_hash == file_md5(n)
    IN  <<>> \o [j \in 1..n |->
                   VecObj(file_name, act_name, file_hash,
                          ChunkOf(n, j - 1), j - 1)]

\* Records, tabulated once for the files and documents of the model
DocRecords ==
    [f \in PdfNames |-> [n \in DocSizes \cup PageSizes |-> Records(f, n)]]

RECURSIVE RunLoop_NoFinalFlush(_, _, _, _)
\* the loop without the flush of the trailing partial batch
RunLoop_NoFinalFlush(file_name, n, i, b) ==
    IF i >= n
    THEN [pc |-> "return", i |-> i, batch |-> b]
    ELSE LET b2 == Append(b, DocRecords[file_name][n][i + 1])
         IN  IF Len(b2) >= BATCH_SIZE
             THEN [pc |-> "upsert", i |-> i + 1, batch |-> b2]
             ELSE RunLoop_NoFinalFlush(file_name, n, i + 1, b2)

RECURSIVE RunLoop_FlushAbove(_, _, _, _)
\* the loop with the flush test len(batch) > BATCH_SIZE
RunLoop_FlushAbove(file_name, n, i, b) ==
    IF i >= n
    THEN [pc |-> IF b # <<>> THEN "final" ELSE "return", i |-> i, batch |-> b]
    ELSE LET b2 == Append(b, DocRecords[file_name][n][i + 1])
         IN  IF Len(b2) > BATCH_SIZE
             THEN [pc |-> "upsert", i |-> i + 1, batch |-> b2]
             ELSE RunLoop_FlushAbove(file_name, n, i + 1, b2)

RECURSIVE RunLoop(_, _, _, _)
RunLoop(file_name, n, i, b) ==
    IF i >= n
    THEN [pc |-> IF b # <<>> THEN "final" ELSE "return", i |-> i, batch |-> b]
    ELSE LET b2 == Append(b, DocRecords[file_name][n][i + 1])
         IN  IF Len(b2) >= BATCH_SIZE
             THEN [pc |-> "upsert", i |-> i + 1, batch |-> b2]
             ELSE RunLoop(file_name, n, i + 1, b2)

\* the store an earlier run left, every upsert of it having succeeded
EarlierStore(sizes) ==
    UNION { { [vec |-> DocRecords[f][sizes[f]][j], by |-> "earlier"] :
                j \in 1..sizes[f] } : f \in DOMAIN sizes }

\* index_pdf goes on from chunk i with buffer b; log1 is the trail so far
Resume(file_name, n, i, b, log1) ==
    LET r == RunLoop(file_name, n, i, b)
    IN  IF r.pc = "return"
        THEN /\ pc' = "scan"
             /\ idx' = idx + 1
             /\ doc' = NoDoc
             /\ next_i' = 0
             /\ batch' = <<>>
             /\ log' = Append(log1, Entry("finished", file_name, TRUE, n, <<>>))
        ELSE /\ pc' = r.pc
             /\ idx' = idx
             /\ doc' = [loaded |-> TRUE, n |-> n]
             /\ next_i' = r.i
             /\ batch' = r.batch
             /\ log' = log1

\* index_pdf returns after the final upsert call
Return(file_name, n, log1) ==
    /\ pc' = "scan"
    /\ idx' = idx + 1
    /\ doc' = NoDoc
    /\ next_i' = 0
    /\ batch' = <<>>
    /\ log' = Append(log1, Entry("finished", file_name, TRUE, n, <<>>))

(***************************************************************************)
(* index_all_pdfs.                                                         *)
(***************************************************************************)
AtFile == pc = "scan" /\ idx <= Len(listing)

\* the extension test comes after the delete call: the stale vectors of a
\* name are deleted before the name is passed over
SkipFile_AfterDelete ==
    /\ AtFile
    /\ ~IsPdf(listing[idx])
    /\ store' = Deleted(store, listing[idx])
    /\ log' = Append(log, Entry("delete", listing[idx], TRUE, 0, <<>>))
    /\ idx' = idx + 1
    /\ UNCHANGED <<listing, earlier, pc, doc, next_i, batch>>
    /\ UNCHANGED pages
    /\ UNCHANGED san_vars
    /\ UNCHANGED cls_vars

\* line 169-170: a name that does not end in .pdf is passed over
SkipFile ==
    /\ AtFile
    /\ ~IsPdf(listing[idx])
    /\ idx' = idx + 1
    /\ UNCHANGED <<listing, earlier, pc, doc, next_i, batch, store, log>>
    /\ UNCHANGED pages
    /\ UNCHANGED san_vars
    /\ UNCHANGED cls_vars

\* the filter is built from the file's path, not from its name
delete_pdf_vectors_ByPath(file_name, ok) ==
    /\ store' = IF ok THEN Deleted(store, PathJoin(PDF_FOLDER, file_name))
                 ELSE store
    /\ log' = Append(log, Entry("delete", PathJoin(PDF_FOLDER, file_name),
                                ok, 0, <<>>))

\* delete_pdf_vectors(file_name); the delete call succeeds (ok) or raises,
\* and then the except clause logs the error and the function returns
delete_pdf_vectors(file_name, ok) ==
    /\ store' = IF ok THEN Deleted(store, file_name) ELSE store
    /\ log' = Append(log, Entry("delete", file_name, ok, 0, <<>>))

\* lines 171-172, the delete call succeeds
DeleteOk ==
    /\ AtFile
    /\ IsPdf(listing[idx])
    /\ delete_pdf_vectors(listing[idx], TRUE)
    /\ pc' = "load"
    /\ UNCHANGED <<listing, earlier, idx, doc, next_i, batch>>
    /\ UNCHANGED pages
    /\ UNCHANGED san_vars
    /\ UNCHANGED cls_vars

\* delete_pdf_vectors without its try: the error leaves index_all_pdfs
DeleteFail_Raises ==
    /\ AtFile
    /\ IsPdf(listing[idx])
    /\ delete_pdf_vectors(listing[idx], FALSE)
    /\ pc' = "aborted"
    /\ UNCHANGED <<listing, earlier, idx, doc, next_i, batch>>
    /\ UNCHANGED pages
    /\ UNCHANGED san_vars
    /\ UNCHANGED cls_vars

\* lines 171-172, the delete call raises
DeleteFail ==
    /\ AtFile
    /\ IsPdf(listing[idx])
    /\ delete_pdf_vectors(listing[idx], FALSE)
    /\ pc' = "load"
    /\ UNCHANGED <<listing, earlier, idx, doc, next_i, batch>>
    /\ UNCHANGED pages
    /\ UNCHANGED san_vars
    /\ UNCHANGED cls_vars

\* line 171: fp; line 103: file_name
FilePath == PathJoin(PDF_FOLDER, listing[idx])

FileName == Basename(FilePath)

\* index_pdf: loader.load() raises; nothing in index_pdf or index_all_pdfs
\* catches it, so the exception leaves index_all_pdfs
LoadFail ==
    /\ pc = "load"
    /\ log' = Append(log, Entry("load", FileName, FALSE, 0, <<>>))
    /\ pc' = "aborted"
    /\ UNCHANGED <<listing, earlier, idx, doc, next_i, batch, store>>
    /\ UNCHANGED pages
    /\ UNCHANGED san_vars
    /\ UNCHANGED cls_vars

\* index_pdf: the document loads and splits into n chunks; the loop starts
LoadOk ==
    /\ pc = "load"
    /\ \E n \in DocSizes :
         Resume(FileName, n, 0, <<>>,
                Append(log, Entry("load", FileName, TRUE, n, <<>>)))
    /\ UNCHANGED <<listing, earlier, store>>
    /\ UNCHANGED pages
    /\ UNCHANGED san_vars
    /\ UNCHANGED cls_vars

\* lines 139-145: the buffer is full, the upsert call succeeds
UpsertOk ==
    /\ pc = "upsert"
    /\ store' = Upserted(store, batch, "current")
    /\ Resume(FileName, doc.n, next_i, <<>>,
              Append(log, Entry("upsert", FileName, TRUE, doc.n, batch)))
    /\ UNCHANGED <<listing, earlier>>
    /\ UNCHANGED pages
    /\ UNCHANGED san_vars
    /\ UNCHANGED cls_vars

\* the buffer is cleared inside the try block, after the call: a call that
\* raises leaves the buffer as it was
UpsertFail_KeepsBatch ==
    /\ pc = "upsert"
    /\ Resume(FileName, doc.n, next_i, batch,
              Append(log, Entry("upsert", FileName, FALSE, doc.n, batch)))
    /\ UNCHANGED <<listing, earlier, store>>
    /\ UNCHANGED pages
    /\ UNCHANGED san_vars
    /\ UNCHANGED cls_vars

\* lines 139-145: the buffer is full, the upsert call raises
UpsertFail ==
    /\ pc = "upsert"
    /\ Resume(FileName, doc.n, next_i, <<>>,
              Append(log, Entry("upsert", FileName, FALSE, doc.n, batch)))
    /\ UNCHANGED <<listing, earlier, store>>
    /\ UNCHANGED pages
    /\ UNCHANGED san_vars
    /\ UNCHANGED cls_vars

\* lines 147-154: the trailing partial batch, the upsert call succeeds
FinalUpsertOk ==
    /\ pc = "final"
    /\ store' = Upserted(store, batch, "current")
    /\ Return(FileName, doc.n,
              Append(log, Entry("upsert", FileName, TRUE, doc.n, batch)))
    /\ UNCHANGED <<listing, earlier>>
    /\ UNCHANGED pages
    /\ UNCHANGED san_vars
    /\ UNCHANGED cls_vars

\* lines 147-154: the trailing partial batch, the upsert call raises
FinalUpsertFail ==
    /\ pc = "final"
    /\ Return(FileName, doc.n,
              Append(log, Entry("upsert", FileName, FALSE, doc.n, batch)))
    /\ UNCHANGED <<listing, earlier, store>>
    /\ UNCHANGED pages
    /\ UNCHANGED san_vars
    /\ UNCHANGED cls_vars

\* line 174: the listing is exhausted
AllProcessed ==
    /\ pc = "scan"
    /\ idx > Len(listing)
    /\ log' = Append(log, Entry("all_processed", <<>>, TRUE, 0, <<>>))
    /\ pc' = "done"
    /\ UNCHANGED <<listing, earlier, idx, doc, next_i, batch, store>>
    /\ UNCHANGED pages
    /\ UNCHANGED san_vars
    /\ UNCHANGED cls_vars

Init ==
    /\ listing \in Listings
    /\ earlier \in [PdfNames -> OldSizes]
    /\ pc = "scan"
    /\ idx = 1
    /\ pages = <<>>
    /\ doc = NoDoc
    /\ next_i = 0
    /\ batch = <<>>
    /\ store = EarlierStore(earlier)
    /\ log = <<>>
    /\ san_m = <<>>
    /\ san_md = <<>>
    /\ san_pc = "off"
    /\ cls_fname = <<>>
    /\ cls_label = <<>>
    /\ cls_pc = "off"

Next ==
    \/ SkipFile
    \/ DeleteOk
    \/ DeleteFail
    \/ LoadFail
    \/ LoadOk
    \/ UpsertOk
    \/ UpsertFail
    \/ FinalUpsertOk
    \/ FinalUpsertFail
    \/ AllProcessed

Spec == Init /\ [][Next]_vars

(***************************************************************************)
(* The folder flow over a folder that holds ipc.pdf alone, a document of   *)
(* one page whose text is drawn from PageTexts; no call fails.             *)
(***************************************************************************)
\* index_pdf: the one-page document loads and is split; the loop starts
LoadOnePage ==
    /\ pc = "load"
    /\ \E t \in PageTexts :
         LET chunks == split_documents(<<t>>, 0)
             n == Len(chunks)
         IN  /\ pages' = <<t>>
             /\ Resume(FileName, n, 0, <<>>,
                       Append(log, Entry("load", FileName, TRUE, n, <<>>)))
    /\ UNCHANGED <<listing, earlier, store>>
    /\ UNCHANGED san_vars
    /\ UNCHANGED cls_vars

OnePageInit ==
    /\ listing = <<F_ipc>>
    /\ earlier \in [PdfNames -> OldSizes]
    /\ pc = "scan"
    /\ idx = 1
    /\ pages = <<>>
    /\ doc = NoDoc
    /\ next_i = 0
    /\ batch = <<>>
    /\ store = EarlierStore(earlier)
    /\ log = <<>>
    /\ san_m = <<>>
    /\ san_md = <<>>
    /\ san_pc = "off"
    /\ cls_fname = <<>>
    /\ cls_label = <<>>
    /\ cls_pc = "off"

OnePageNext ==
    \/ DeleteOk
    \/ LoadOnePage
    \/ FinalUpsertOk
    \/ AllProcessed

OnePageSpec == OnePageInit /\ [][OnePageNext]_vars

(***************************************************************************)
(* sanitize_metadata on its own: a mapping is drawn, the function is       *)
(* called on it once.                                                      *)
(***************************************************************************)
SanKeys ==
    {"page_number", "chunk_index", "file_hash", "source_pdf", "source_act",
     "text", "note"}

\* a text longer than the stored maximum
LongText ==
    [j \in 1..(MAX_TEXT + MAX_TEXT \div 2) |-> LowerChars[(j % 26) + 1]]

SanValues ==
    { PyNone,
      PyInt(7), PyInt(0), PyInt(-3),
      PyStr(<<"a","b","c">>), PyStr(<<" ","1","2"," ">>), PyStr(<<>>),
      PyStr(LongText),
      PyBool(TRUE),
      PyFloat("fin", 25), PyFloat("nan", 0),
      PyList(<<>>), PyList(<<PyStr(<<"a">>)>>),
      PyList(<<PyStr(<<"a">>), PyInt(1)>>),
      PyObj(<<"{","}">>) }

\* the mappings index_pdf builds, for the first and the last chunk
BuiltMetadata ==
    { ChunkMetadata(f, infer_act_from_filename(f), file_md5(n),
                    ChunkOf(n, i), i) :
        f \in PdfNames, n \in DocSizes \ {0}, i \in {0, 1} }

SanInputs ==
    BuiltMetadata
      \cup UNION { [ks -> SanValues] :
                     ks \in { k \in SUBSET SanKeys : Cardinality(k) <= MaxKeys } }

SanInit ==
    /\ san_m \in SanInputs
    /\ san_md = <<>>
    /\ san_pc = "call"
    /\ listing = <<>>
    /\ earlier = [f \in PdfNames |-> 0]
    /\ pc = "off"
    /\ idx = 1
    /\ pages = <<>>
    /\ doc = NoDoc
    /\ next_i = 0
    /\ batch = <<>>
    /\ store = {}
    /\ log = <<>>
    /\ cls_fname = <<>>
    /\ cls_label = <<>>
    /\ cls_pc = "off"

\* safe_md = sanitize_metadata(metadata)
SanCall ==
    /\ san_pc = "call"
    /\ san_md' = sanitize_metadata(san_m)
    /\ san_pc' = "returned"
    /\ UNCHANGED san_m
    /\ UNCHANGED folder_vars
    /\ UNCHANGED cls_vars

SanNext == SanCall

SanSpec == SanInit /\ [][SanNext]_vars

(***************************************************************************)
(* infer_act_from_filename on its own: a name is drawn, the function is    *)
(* called on it once.                                                      *)
(***************************************************************************)
\* a name with its letters in upper case
UpperCased(s) ==
    [j \in 1..Len(s) |->
        IF \E c \in 1..26 : LowerChars[c] = s[j]
        THEN UpperChars[CHOOSE c \in 1..26 : LowerChars[c] = s[j]]
        ELSE s[j]]

\* a name with its first letter in upper case
Capitalized(s) ==
    IF s = <<>> THEN s ELSE UpperCased(<<s[1]>>) \o Tail(s)

Keywords == UNION { ActTable[r].kws : r \in 1..Len(ActTable) }

F_IPC_section_302 ==
    <<"I","P","C","_","s","e","c","t","i","o","n","_","3","0","2",
      ".","p","d","f">>

F_random_notes ==
    <<"r","a","n","d","o","m","_","n","o","t","e","s",".","p","d","f">>

F_Ipc ==
    <<"I","p","c",".","P","D","F">>

\* the names the classifier is called on: the folder's names, the names of
\* the examples, every keyword alone, in upper case, capitalized and inside
\* a longer name, and every keyword followed by every keyword
ClsNames ==
    FileNames
      \cup {F_IPC_section_302, F_random_notes, F_Ipc, <<>>}
      \cup { kw \o Ext_pdf : kw \in Keywords }
      \cup { UpperCased(kw \o Ext_pdf) : kw \in Keywords }
      \cup { Capitalized(kw) \o Ext_pdf : kw \in Keywords }
      \cup { <<"a","_">> \o kw \o <<"_","1">> \o Ext_pdf : kw \in Keywords }
      \cup { k1 \o <<"_">> \o k2 \o Ext_pdf : k1 \in Keywords, k2 \in Keywords }

ClsInit ==
    /\ cls_fname \in ClsNames
    /\ cls_label = <<>>
    /\ cls_pc = "call"
    /\ listing = <<>>
    /\ earlier = [f \in PdfNames |-> 0]
    /\ pc = "off"
    /\ idx = 1
    /\ pages = <<>>
    /\ doc = NoDoc
    /\ next_i = 0
    /\ batch = <<>>
    /\ store = {}
    /\ log = <<>>
    /\ san_m = <<>>
    /\ san_md = <<>>
    /\ san_pc = "off"

\* act_name = infer_act_from_filename(file_name)
ClsCall ==
    /\ cls_pc = "call"
    /\ cls_label' = infer_act_from_filename(cls_fname)
    /\ cls_pc' = "returned"
    /\ UNCHANGED cls_fname
    /\ UNCHANGED folder_vars
    /\ UNCHANGED san_vars

ClsNext == ClsCall

ClsSpec == ClsInit /\ [][ClsNext]_vars

(***************************************************************************)
(* Reading the trail.                                                      *)
(***************************************************************************)
LogIdx == 1..Len(log)

\* the step appends exactly this many lines to the trail
Appends(k) == Len(log') = Len(log) + k

\* positions of the calls of kind op for file f
CallsOf(op, f) == { j \in LogIdx : log[j].op = op /\ log[j].file = f }

\* index_pdf has returned for file f
Finished(f) == CallsOf("finished", f) # {}

\* index_pdf has returned for file f in the step that led here
JustFinished(f) ==
    /\ log # <<>>
    /\ log[Len(log)].op = "finished"
    /\ log[Len(log)].file = f

\* nothing is sent for a file once its flow has finished
NothingSentAfterFinish(f) ==
    \A u \in CallsOf("upsert", f) : \A d \in CallsOf("finished", f) : u < d

\* the PDFs of the listing the run has reached so far
Reached ==
    { listing[p] : p \in { q \in 1..Len(listing) :
          /\ IsPdf(listing[q])
          /\ \/ q < idx
             \/ q = idx /\ pc \in {"load", "upsert", "final", "aborted"} } }

\* the source_pdf a stored record carries
SourceOf(e) == e.vec.metadata["source_pdf"]

RECURSIVE SentFrom(_, _)
\* the records of the upsert calls for file f from trail position j on,
\* concatenated in call order
SentFrom(f, j) ==
    IF j > Len(log) THEN <<>>
    ELSE IF log[j].op = "upsert" /\ log[j].file = f
         THEN log[j].vectors \o SentFrom(f, j + 1)
         ELSE SentFrom(f, j + 1)

Sent(f) == SentFrom(f, 1)

(***************************************************************************)
(* C1.  In a folder run, when loading one PDF fails, that document is      *)
(* skipped and the run goes on with the next file of the listing: the step *)
(* in which the loader raises leaves the run scanning at the next          *)
(* position.                                                               *)
(***************************************************************************)
LoadFailedStep ==
    /\ Appends(1)
    /\ log'[Len(log')].op = "load"
    /\ ~log'[Len(log')].ok

C1_LoadFailureSkipsDocument ==
    [][LoadFailedStep => (pc' = "scan" /\ idx' = idx + 1)]_vars

(***************************************************************************)
(* C2.  After a completed folder run over a store an earlier run filled,   *)
(* every stored vector whose source_pdf is a PDF processed in this run was *)
(* written by this run.                                                    *)
(***************************************************************************)
ProcessedPdfs == { f \in Reached : Finished(f) }

C2_NoStaleVectorAfterRun ==
    pc = "done" =>
        \A f \in ProcessedPdfs :
            \A e \in store : SourceOf(e) = PyStr(f) => e.by = "current"

\* C2 as amended: the same, for every PDF of the run whose delete call
\* succeeded (a delete call that raises is logged and leaves the old
\* vectors in place).
DeletedOk(f) == \E j \in CallsOf("delete", f) : log[j].ok

C2_NoStaleVectorAfterSuccessfulDelete ==
    pc = "done" =>
        \A f \in ProcessedPdfs :
            DeletedOk(f) =>
                \A e \in store : SourceOf(e) = PyStr(f) => e.by = "current"

\* a completed run that re-ingested, after a successful delete, a document
\* that now has fewer chunks than at the earlier run
C2_Witness ==
    /\ pc = "done"
    /\ \E f \in ProcessedPdfs :
         /\ DeletedOk(f)
         /\ \E j \in CallsOf("load", f) : log[j].n > 0 /\ log[j].n < earlier[f]
         /\ \E e \in store : SourceOf(e) = PyStr(f)

(***************************************************************************)
(* C3.  For every PDF of the listing the run reaches, the delete call with *)
(* filter source_pdf = file name is issued first: the load of a file       *)
(* directly follows the delete call for the same name, and every upsert    *)
(* call for a file has a delete call for that name before it.              *)
(***************************************************************************)
C3_DeleteBeforeLoadAndUpsert ==
    /\ \A f \in Reached : CallsOf("delete", f) # {}
    /\ \A j \in LogIdx :
         log[j].op = "load" =>
             /\ j > 1
             /\ log[j - 1].op = "delete"
             /\ log[j - 1].file = log[j].file
    /\ \A j \in LogIdx :
         log[j].op = "upsert" =>
             /\ IsPdf(log[j].file)
             /\ \E d \in CallsOf("delete", log[j].file) : d < j

\* an upsert call has been issued for the second PDF of a listing
C3_Witness ==
    \E j \in LogIdx :
        /\ log[j].op = "upsert"
        /\ \E d \in 1..(j - 1) : log[d].op = "finished"

(***************************************************************************)
(* C4.  When an upsert call raises, the per-document flow continues: the   *)
(* step leaves the run inside index_pdf or scanning the next file, the     *)
(* buffer it leaves holds none of the failed batch's records, no later     *)
(* upsert call carries any of them, every chunk after the failed batch is  *)
(* still sent once the document is finished, and a run that completes has  *)
(* finished every PDF of the listing.                                      *)
(***************************************************************************)
IdsOf(b) == { b[j].id : j \in 1..Len(b) }

IndexOf(v) == v.metadata["chunk_index"].v[1]

\* the chunk indices of the records of b
ChunksOf(b) == { IndexOf(b[j]) : j \in 1..Len(b) }

\* the step issues an upsert call; it is the first line the step appends
UpsertStep == Len(log') > Len(log) /\ log'[Len(log) + 1].op = "upsert"

UpsertFailedStep == UpsertStep /\ ~log'[Len(log) + 1].ok

FailedUpserts == { j \in LogIdx : log[j].op = "upsert" /\ ~log[j].ok }

C4_UpsertFailureContinues ==
    /\ [][UpsertFailedStep =>
            /\ pc' \in {"upsert", "final", "scan"}
            /\ IdsOf(batch') \cap IdsOf(log'[Len(log) + 1].vectors) = {}
            /\ pc' = "scan" => idx' = idx + 1]_vars
    /\ [][UpsertStep =>
            \A j \in FailedUpserts :
                log[j].file = log'[Len(log) + 1].file =>
                    ChunksOf(log'[Len(log) + 1].vectors)
                        \cap ChunksOf(log[j].vectors) = {}]_vars
    /\ [](\A j \in FailedUpserts :
            Finished(log[j].file) =>
                LET failed == ChunksOf(log[j].vectors)
                    later == ChunksOf(SentFrom(log[j].file, j + 1))
                IN  \A i \in 0..(log[j].n - 1) :
                        (\A a \in failed : a < i) => i \in later)
    /\ [](pc = "done" =>
            \A p \in 1..Len(listing) : IsPdf(listing[p]) => Finished(listing[p]))

\* the first batch of a document failed, a later batch of it was sent, and
\* the run went on to complete with a second PDF
C4_Witness ==
    /\ pc = "done"
    /\ \E j \in FailedUpserts :
         /\ \E k \in CallsOf("upsert", log[j].file) : k > j
         /\ \E k \in LogIdx : k > j /\ log[k].op = "delete"

(***************************************************************************)
(* C5.  For a document that loaded with n chunks and whose flow has        *)
(* finished, the upsert calls issued for it, concatenated in call order,   *)
(* hold exactly the records of chunks 0..n-1, each once and in increasing  *)
(* order, whether or not upsert calls failed.  (Checked in the state in    *)
(* which the document's flow finishes; nothing is sent for it afterwards.) *)
(***************************************************************************)
LoadedSize(f) == log[CHOOSE j \in CallsOf("load", f) : TRUE].n

C5_EveryChunkSentOnce ==
    \A f \in Reached :
        /\ NothingSentAfterFinish(f)
        /\ JustFinished(f) =>
             LET n == LoadedSize(f)
                 sent == Sent(f)
             IN  /\ Len(sent) = n
                 /\ \A i \in 1..n :
                      /\ IndexOf(sent[i]) = i - 1
                      /\ sent[i].metadata["text"] = PyStr(ChunkText(n, i - 1))

\* a finished document of more than one batch, one of whose upserts failed
C5_Witness ==
    \E f \in Reached :
        /\ JustFinished(f)
        /\ LoadedSize(f) > BATCH_SIZE
        /\ \E j \in FailedUpserts : log[j].file = f

(***************************************************************************)
(* C6.  Every upsert call carries between 1 and BATCH_SIZE records; the    *)
(* buffer is flushed inside the loop exactly when it holds BATCH_SIZE      *)
(* records, so every upsert call of a document but the last carries        *)
(* BATCH_SIZE records and a document of n chunks issues exactly            *)
(* ceil(n / BATCH_SIZE) calls: none for zero chunks, no empty trailing     *)
(* call for a multiple of BATCH_SIZE.                                      *)
(***************************************************************************)
C6_BatchSizes ==
    /\ \A j \in LogIdx :
         log[j].op = "upsert" =>
             /\ Len(log[j].vectors) >= 1
             /\ Len(log[j].vectors) <= BATCH_SIZE
             /\ (\E k \in CallsOf("upsert", log[j].file) : k > j)
                    => Len(log[j].vectors) = BATCH_SIZE
    /\ pc = "upsert" => Len(batch) = BATCH_SIZE
    /\ pc = "final" => Len(batch) >= 1 /\ Len(batch) < BATCH_SIZE
    /\ \A f \in Reached :
         Finished(f) =>
             Cardinality(CallsOf("upsert", f))
                 = (LoadedSize(f) + BATCH_SIZE - 1) \div BATCH_SIZE

\* a finished document of exactly BATCH_SIZE chunks (one call), and a
\* finished document of zero chunks (no call)
C6_Witness ==
    /\ \E f \in Reached :
         /\ Finished(f)
         /\ LoadedSize(f) = BATCH_SIZE
         /\ Cardinality(CallsOf("upsert", f)) = 1
    /\ \E f \in Reached :
         /\ Finished(f)
         /\ LoadedSize(f) = 0
         /\ CallsOf("upsert", f) = {}

(***************************************************************************)
(* C7.  The id of the record of chunk i of document F is F, "-chunk-" and  *)
(* the decimal form of i, with i the zero-based position in the chunk      *)
(* sequence; the ids of a document are pairwise distinct; and ingesting a  *)
(* document that is unchanged since the earlier run sends exactly the ids  *)
(* the earlier run stored for it.  (Checked in the state in which the      *)
(* document's flow finishes; nothing is sent for it afterwards.)           *)
(***************************************************************************)
EarlierIds(f) ==
    { e.vec.id : e \in { x \in EarlierStore(earlier) : SourceOf(x) = PyStr(f) } }

C7_DeterministicIds ==
    \A f \in Reached :
        /\ NothingSentAfterFinish(f)
        /\ JustFinished(f) =>
             LET n == LoadedSize(f)
                 sent == Sent(f)
             IN  /\ \A i \in 1..Len(sent) :
                      sent[i].id
                        = f \o <<"-","c","h","u","n","k","-">> \o NatDigits(i - 1)
                 /\ Cardinality(IdsOf(sent)) = Len(sent)
                 /\ n = earlier[f] => IdsOf(sent) = EarlierIds(f)

\* a finished document of more than one batch that is unchanged since the
\* earlier run
C7_Witness ==
    \E f \in Reached :
        /\ JustFinished(f)
        /\ LoadedSize(f) = earlier[f]
        /\ LoadedSize(f) > BATCH_SIZE

(***************************************************************************)
(* C8.  sanitize_metadata returns, for every input mapping, a mapping with *)
(* exactly the input's keys in which every value is a string, an integer,  *)
(* a float, a boolean or a list of strings, and none is null; the mappings *)
(* index_pdf builds for its records are among the inputs.                  *)
(***************************************************************************)
AllowedShape(x) ==
    \/ x.t \in {"str", "int", "float", "bool"}
    \/ x.t = "list" /\ \A j \in 1..Len(x.v) : x.v[j].t = "str"

C8_SanitizedShapes ==
    san_pc = "returned" =>
        /\ DOMAIN san_md = DOMAIN san_m
        /\ \A k \in DOMAIN san_md : AllowedShape(san_md[k])

\* the call has returned for an input that holds a null and a list that is
\* not a list of strings
C8_Witness ==
    /\ san_pc = "returned"
    /\ \E k \in DOMAIN san_m : san_m[k].t = "none"
    /\ \E k \in DOMAIN san_m : san_m[k].t = "list" /\ ~AllowedShape(san_m[k])

(***************************************************************************)
(* C9.  No error is fatal to the folder job: whatever calls fail, a run    *)
(* that has not logged "All PDFs processed" can still take a step, and a   *)
(* run that has logged it has visited every PDF of the listing.            *)
(***************************************************************************)
C9_NoErrorIsFatal ==
    /\ pc # "done" => ENABLED Next
    /\ pc = "done" =>
         \A p \in 1..Len(listing) :
             IsPdf(listing[p]) => CallsOf("delete", listing[p]) # {}

(***************************************************************************)
(* C10.  When the delete call for a file raises, delete_pdf_vectors        *)
(* catches and logs it, and the folder flow runs index_pdf for that same   *)
(* file: the step leaves the run at the load of the same file, and the     *)
(* next call on the trail is that file's load.                             *)
(***************************************************************************)
DeleteFailedStep ==
    /\ Appends(1)
    /\ log'[Len(log')].op = "delete"
    /\ ~log'[Len(log')].ok

C10_DeleteFailureStillIngests ==
    /\ [][DeleteFailedStep => (pc' = "load" /\ idx' = idx)]_vars
    /\ [](\A j \in LogIdx :
            (log[j].op = "delete" /\ ~log[j].ok /\ j < Len(log)) =>
                /\ log[j + 1].op = "load"
                /\ log[j + 1].file = log[j].file)

\* a file whose delete call failed has been loaded, upserted and finished
C10_Witness ==
    \E j \in LogIdx :
        /\ log[j].op = "delete"
        /\ ~log[j].ok
        /\ Finished(log[j].file)
        /\ \E k \in CallsOf("upsert", log[j].file) : log[k].ok

(***************************************************************************)
(* C11.  The folder flow passes over a file whose lower-cased name does    *)
(* not end in ".pdf": the step at such a name issues no call, leaves the   *)
(* store and the buffer as they were and moves to the next name; no call   *)
(* on the trail ever names such a file; and a run over a folder without    *)
(* any PDF completes with "All PDFs processed" as its only line and the    *)
(* store untouched.                                                        *)
(***************************************************************************)
NotPdfName(f) == ~EndsWith(Lower(f), <<".","p","d","f">>)

AtNonPdf == pc = "scan" /\ idx <= Len(listing) /\ NotPdfName(listing[idx])

C11_NonPdfSkipped ==
    /\ [][AtNonPdf =>
            /\ store' = store
            /\ log' = log
            /\ batch' = batch
            /\ pc' = "scan"
            /\ idx' = idx + 1]_vars
    /\ [](\A j \in LogIdx :
            log[j].op # "all_processed" => ~NotPdfName(log[j].file))
    /\ []((pc = "done" /\ \A p \in 1..Len(listing) : NotPdfName(listing[p])) =>
            /\ Len(log) = 1
            /\ log[1].op = "all_processed"
            /\ store = EarlierStore(earlier))

\* a completed run over a folder that holds a file but no PDF, with the
\* store an earlier run filled still in place
C11_Witness ==
    /\ pc = "done"
    /\ listing # <<>>
    /\ \A p \in 1..Len(listing) : NotPdfName(listing[p])
    /\ store # {}

(***************************************************************************)
(* C12.  sanitize_metadata stores an integer under page_number and under   *)
(* chunk_index, never null: None gives -1, a value int() rejects ("abc",   *)
(* the empty string, nan, a list, another object) gives -1, an integer     *)
(* (7, 0, -3) is stored unchanged, and a value int() accepts is stored as  *)
(* that integer (" 12 " as 12, 2.5 as 2, True as 1).                       *)
(***************************************************************************)
IntFields == {"page_number", "chunk_index"}

C12_PageNumberAndChunkIndexAreIntegers ==
    san_pc = "returned" =>
        \A k \in DOMAIN san_m \cap IntFields :
            LET x == san_m[k]
                y == san_md[k]
            IN  /\ y.t = "int"
                /\ y # PyNone
                /\ x.t = "none" => y = PyInt(-1)
                /\ x = PyStr(<<"a","b","c">>) => y = PyInt(-1)
                /\ x = PyStr(<<>>) => y = PyInt(-1)
                /\ x = PyStr(LongText) => y = PyInt(-1)
                /\ x = PyFloat("nan", 0) => y = PyInt(-1)
                /\ x.t \in {"list", "obj"} => y = PyInt(-1)
                /\ x.t = "int" => y = x
                /\ x = PyInt(7) => y.v[1] = 7
                /\ x = PyStr(<<" ","1","2"," ">>) => y = PyInt(12)
                /\ x = PyFloat("fin", 25) => y = PyInt(2)
                /\ x = PyBool(TRUE) => y = PyInt(1)

\* the call has returned for a mapping with page_number "abc" and a null
\* chunk_index
C12_Witness ==
    /\ san_pc = "returned"
    /\ DOMAIN san_m = IntFields
    /\ san_m["page_number"] = PyStr(<<"a","b","c">>)
    /\ san_m["chunk_index"] = PyNone

(***************************************************************************)
(* C13.  sanitize_metadata stores under text a string: for a string input  *)
(* its prefix of length min(len, 2000), so a text of at most 2000          *)
(* characters is stored unchanged and a text of 3000 characters is cut to  *)
(* exactly its first 2000; for a null input the empty string.              *)
(***************************************************************************)
C13_TextIsPrefixOfAtMost2000 ==
    (san_pc = "returned" /\ "text" \in DOMAIN san_m) =>
        LET x == san_m["text"]
            y == san_md["text"]
        IN  /\ y.t = "str"
            /\ Len(y.v) <= 2000
            /\ x.t = "none" => y.v = <<>>
            /\ x.t = "str" =>
                 /\ Len(y.v) = IF Len(x.v) < 2000 THEN Len(x.v) ELSE 2000
                 /\ \A j \in 1..Len(y.v) : y.v[j] = x.v[j]
                 /\ Len(x.v) <= 2000 => y = x
                 /\ Len(x.v) = 3000 => Len(y.v) = 2000

\* the call has returned for a text of 3000 characters
C13_Witness ==
    /\ san_pc = "returned"
    /\ "text" \in DOMAIN san_m
    /\ san_m["text"].t = "str"
    /\ Len(san_m["text"].v) = 3000

(***************************************************************************)
(* C14.  infer_act_from_filename returns the label of the first row of the *)
(* keyword table one of whose keywords occurs in the lower-cased name, and *)
(* "Unknown Act" when none occurs; "IPC_section_302.pdf" is labelled       *)
(* "Indian Penal Code", "random_notes.pdf" is labelled "Unknown Act", and  *)
(* the name in upper case and the name in lower case get the label the     *)
(* name itself got.                                                        *)
(***************************************************************************)
\* the rows of the table one of whose keywords occurs in the lower-cased name
RowsHit(fname) ==
    { r \in 1..Len(ActTable) :
        \E kw \in ActTable[r].kws : Contains(Lower(fname), kw) }

C14_FirstMatchingRowCaseInsensitive ==
    cls_pc = "returned" =>
        LET hits == RowsHit(cls_fname)
        IN  /\ hits = {} => cls_label = Act_Unknown
            /\ hits # {} =>
                 \E r \in hits :
                     /\ \A q \in hits : r <= q
                     /\ cls_label = ActTable[r].label
            /\ cls_fname = F_IPC_section_302 =>
                 cls_label = <<"I","n","d","i","a","n"," ","P","e","n","a","l",
                               " ","C","o","d","e">>
            /\ cls_fname = F_random_notes =>
                 cls_label = <<"U","n","k","n","o","w","n"," ","A","c","t">>
            /\ cls_label = infer_act_from_filename(UpperCased(cls_fname))
            /\ cls_label = infer_act_from_filename(Lower(cls_fname))

\* the call has returned for a name in mixed case in which keywords of two
\* rows occur
C14_Witness ==
    /\ cls_pc = "returned"
    /\ cls_fname # Lower(cls_fname)
    /\ cls_fname # UpperCased(cls_fname)
    /\ Cardinality(RowsHit(cls_fname)) >= 2

(***************************************************************************)
(* C15.  Ingesting the one-page document "ipc.pdf" with 5000 characters of *)
(* text, with no failing call, sends exactly 3 records, with the ids       *)
(* "ipc.pdf-chunk-0", "ipc.pdf-chunk-1", "ipc.pdf-chunk-2", each with      *)
(* source_act "Indian Penal Code".                                         *)
(***************************************************************************)
Id_ipc_0 == <<"i","p","c",".","p","d","f","-","c","h","u","n","k","-","0">>
Id_ipc_1 == <<"i","p","c",".","p","d","f","-","c","h","u","n","k","-","1">>
Id_ipc_2 == <<"i","p","c",".","p","d","f","-","c","h","u","n","k","-","2">>

\* the run is complete and the document it ingested has one page of 5000
\* characters
IngestedOnePageOf5000 ==
    /\ pc = "done"
    /\ listing = <<F_ipc>>
    /\ Len(pages) = 1
    /\ TextLen(pages[1]) = 5000

IsIndianPenalCode(v) ==
    v.metadata["source_act"]
        = PyStr(<<"I","n","d","i","a","n"," ","P","e","n","a","l"," ",
                  "C","o","d","e">>)

C15_FiveThousandCharactersGiveThreeRecords ==
    IngestedOnePageOf5000 =>
        LET sent == Sent(F_ipc)
        IN  /\ Len(sent) = 3
            /\ sent[1].id = Id_ipc_0
            /\ sent[2].id = Id_ipc_1
            /\ sent[3].id = Id_ipc_2
            /\ \A i \in 1..3 : IsIndianPenalCode(sent[i])

\* C15 as amended: the run sends one record per chunk the splitter returns
\* for the text, with the ids "ipc.pdf-chunk-0", "ipc.pdf-chunk-1", ... in
\* chunk order and source_act "Indian Penal Code" in each; when the text
\* holds no white space, so that the splitter cuts it by character count,
\* these are exactly the 3 records of the claim.
C15_OneRecordPerChunkThreeWithoutWhiteSpace ==
    IngestedOnePageOf5000 =>
        LET sent == Sent(F_ipc)
        IN  /\ Len(sent) = Len(split_text(pages[1]))
            /\ Len(sent) >= 1
            /\ Len(sent) <= 10
            /\ \A i \in 1..Len(sent) :
                 /\ sent[i].id
                      = <<"i","p","c",".","p","d","f","-","c","h","u","n","k","-">>
                          \o <<DigitChars[i]>>
                 /\ IsIndianPenalCode(sent[i])
            /\ Len(pages[1]) = 1 =>
                 /\ Len(sent) = 3
                 /\ sent[1].id = Id_ipc_0
                 /\ sent[2].id = Id_ipc_1
                 /\ sent[3].id = Id_ipc_2

\* the run is complete for a text of 5000 characters without white space,
\* and 3 records were sent
C15_Witness ==
    /\ IngestedOnePageOf5000
    /\ Len(pages[1]) = 1
    /\ Len(Sent(F_ipc)) = 3

(***************************************************************************)
(* C16.  Every record of an upsert call issued while file F is processed   *)
(* has the id F, "-chunk-", i and metadata with source_pdf = F and         *)
(* chunk_index = i for the same i, so no call mixes two documents; the     *)
(* records an earlier run left have the same form; and a delete call for   *)
(* F that succeeds removes from the store exactly the records whose id     *)
(* starts with F, "-chunk-": every record written for F and no record      *)
(* written for another file.                                               *)
(***************************************************************************)
\* the record v has the id and the metadata of a chunk of file f
RecordOfFile(v, f) ==
    /\ v.metadata["source_pdf"] = PyStr(f)
    /\ v.metadata["chunk_index"].t = "int"
    /\ v.metadata["chunk_index"].v[1] >= 0
    /\ v.id = f \o <<"-","c","h","u","n","k","-">>
                \o NatDigits(v.metadata["chunk_index"].v[1])

\* the id of v starts with f, "-chunk-"
HasIdOfFile(v, f) ==
    /\ Len(v.id) > Len(f) + 7
    /\ SubSeq(v.id, 1, Len(f) + 7) = f \o <<"-","c","h","u","n","k","-">>

DeleteSucceededStep ==
    /\ Appends(1)
    /\ log'[Len(log')].op = "delete"
    /\ log'[Len(log')].ok

C16_IdAndSourcePdfNameTheSameFile ==
    /\ \A e \in store : \E f \in PdfNames : RecordOfFile(e.vec, f)
    /\ [][UpsertStep =>
            LET call == log'[Len(log) + 1]
            IN  /\ call.file = listing[idx]
                /\ \A k \in 1..Len(call.vectors) :
                     RecordOfFile(call.vectors[k], call.file)]_vars
    /\ [][DeleteSucceededStep =>
            LET f == log'[Len(log')].file
            IN  /\ f = listing[idx]
                /\ store' = { e \in store : ~HasIdOfFile(e.vec, f) }]_vars

\* a delete call for a file succeeds on a store that holds records the
\* earlier run wrote for it and records this run wrote for another file
C16_Witness ==
    \E j \in LogIdx :
        /\ log[j].op = "delete"
        /\ log[j].ok
        /\ earlier[log[j].file] > 0
        /\ \E k \in 1..(j - 1) :
             /\ log[k].op = "upsert"
             /\ log[k].ok
             /\ log[k].file # log[j].file
        /\ \E e \in store : e.by = "current"
        /\ \A e \in store : e.by = "earlier" => SourceOf(e) # PyStr(log[j].file)

(***************************************************************************)
(* C17.  The page_number stored for a chunk is the page number the loader  *)
(* supplied for it (key page_number, else key page) whenever it supplied   *)
(* one, page number 0 included; -1 is stored only when the loader supplied *)
(* none or one that int() rejects.                                         *)
(***************************************************************************)
\* the page number the loader supplied for a chunk, None when it supplied none
LoaderPage(chunk) ==
    IF "page_number" \in DOMAIN chunk.metadata /\ chunk.metadata["page_number"].t # "none"
    THEN chunk.metadata["page_number"]
    ELSE IF "page" \in DOMAIN chunk.metadata
         THEN chunk.metadata["page"]
         ELSE [t |-> "none", v |-> <<>>]

C17_StoredPageNumberIsLoaderPage ==
    \A j \in LogIdx :
        log[j].op = "upsert" =>
            \A k \in 1..Len(log[j].vectors) :
                LET v == log[j].vectors[k]
                    p == LoaderPage(ChunkOf(log[j].n, v.metadata["chunk_index"].v[1]))
                    stored == v.metadata["page_number"]
                IN  /\ p.t = "int" => stored = p
                    /\ stored = [t |-> "int", v |-> <<-1>>] =>
                         (p.t # "int" \/ p.v[1] = -1)

(***************************************************************************)
(* C18.  Every row of the keyword table is reachable: for each keyword of  *)
(* each row, whenever a name that contains the keyword does not get that   *)
(* row's label, another name that contains the keyword does; in particular *)
(* "constitution.pdf" is labelled "Constitution of India".                 *)
(***************************************************************************)
F_constitution ==
    <<"c","o","n","s","t","i","t","u","t","i","o","n",".","p","d","f">>

C18_EveryKeywordReachesItsRow ==
    cls_pc = "returned" =>
        /\ \A r \in 1..Len(ActTable) :
             \A kw \in ActTable[r].kws :
                 Contains(Lower(cls_fname), kw) =>
                     \/ cls_label = ActTable[r].label
                     \/ \E name \in ClsNames :
                          /\ Contains(Lower(name), kw)
                          /\ infer_act_from_filename(name) = ActTable[r].label
        /\ cls_fname = F_constitution =>
             cls_label = <<"C","o","n","s","t","i","t","u","t","i","o","n",
                           " ","o","f"," ","I","n","d","i","a">>

====
